---- MODULE Spec2Model ----
(***************************************************************************)
(* Model of the two Mastodon adapters of Feed-Amalgamator:                 *)
(*   MastodonOAuthInterface  (helpers/mastodon_oauth_interface.py)         *)
(*   MastodonDataInterface   (helpers/mastodon_data_interface.py)          *)
(* One OAuth adapter and one data adapter are driven by a single-threaded  *)
(* caller.  The provider (the Mastodon client library and the HTTP probe)  *)
(* is the environment: each provider call answers nondeterministically     *)
(* with a value or with one of the exception classes the source names.     *)
(* A retry loop is modelled one iteration per step; pc is the caller's     *)
(* position ("idle" between calls, "loop" inside a for loop).              *)
(***************************************************************************)
EXTENDS Integers, Sequences, FiniteSets, TLC

\* ---------------------------------------------------------------- bounds
\* largest num_tries a caller passes (the default, 3, is inside the range)
MaxTries == 3
\* largest number of posts the provider puts in one timeline answer
MaxPosts == 2
\* largest number of pieces a typed domain string is put together from
MaxPieces == 3

\* ------------------------------------------------------ program constants
\* default of the num_tries parameter of the three retryable operations
DefaultTries == 3

REQUIRED_SCOPES == <<"read", "write", "push">>

REDIRECT_URI == "urn:ietf:wg:oauth:2.0:oob"

\* requests' HTTPStatus.OK
HTTP_OK == 200

\* ------------------------------------------------------------ input sets
\* num_tries values a caller may pass; range(num_tries) is empty for <= 0
TriesRange == ((0 - 1)..MaxTries) \cup {DefaultTries}

\* api_base_url values handed to the start operations
Domains == {"mstdn.social", "tomorrow.io"}

\* user access tokens
Tokens == {"tokenA", "tokenB"}

\* authorization codes typed by the user
AuthCodes == {"codeA", "codeB"}

TimelineNames == {"home", "local"}

\* the app credentials read from the APP_TOKENS section at construction
Credentials == [CLIENT_ID |-> "id", CLIENT_SECRET |-> "secret", ACCESS_TOKEN |-> "apptoken"]

None == [cls |-> "NoneType"]

\* ------------------------------------------------- exception classes
\* The exception classes the two files import and name in except clauses.
\* Subclasses(c) is the set of modelled classes an "except c" clause
\* catches: MastodonUnauthorizedError is a MastodonAPIError (it is caught
\* before the MastodonAPIError clause in start_user_api_client), and
\* MastodonIllegalArgumentError is not (it is caught before it in
\* generate_user_access_token and is a ValueError).
Subclasses(c) ==
    CASE c = "MastodonAPIError" -> {"MastodonAPIError", "MastodonUnauthorizedError"}
      [] OTHER -> {c}

\* what the provider can raise from a timeline call (data interface)
TimelineErrors == {"ConnectionError", "MastodonAPIError", "MastodonUnauthorizedError"}

\* what the provider can raise from auth_request_url / log_in (oauth interface)
OAuthErrors == {"ConnectionError", "MastodonAPIError", "MastodonIllegalArgumentError"}

\* what the Mastodon(...) constructor can raise
ConstructorErrors == {"ConnectionError", "MastodonAPIError"}

\* A try statement's except clauses, in source order: the index of the first
\* clause that catches exception class e, 0 when none does (e propagates).
RECURSIVE FirstMatch(_, _, _)
FirstMatch(clauses, e, n) ==
    IF n > Len(clauses) THEN 0
    ELSE IF \E c \in clauses[n].classes : e \in Subclasses(c) THEN n
    ELSE FirstMatch(clauses, e, n + 1)

\* What the try statement does with e: the matching clause's effect
\* ("retry": log and go round the loop; "raise": log and raise `exc`),
\* or propagation of e itself.
Dispatch(clauses, e) ==
    LET n == FirstMatch(clauses, e, 1)
    IN IF n = 0 THEN [do |-> "propagate", exc |-> e]
       ELSE [do |-> clauses[n].do, exc |-> clauses[n].exc]


\* ------------------------------------------------------------- values
NoValue == [type |-> "none"]

\* Python's None as a returned value
PyNone == [type |-> "NoneType"]

\* the raw post objects the provider library hands out (AttribAccessDict)
Posts ==
    { [type |-> "AttribAccessDict", fields |-> [id |-> n, content |-> c]] :
        n \in {1}, c \in {"hello", "world"} }

\* sequences over S of length 0..n
RECURSIVE SeqsUpTo(_, _)
SeqsUpTo(S, n) ==
    IF n <= 0 THEN {<<>>}
    ELSE LET shorter == SeqsUpTo(S, n - 1)
         IN shorter \cup { Append(q, x) : q \in {r \in shorter : Len(r) = n - 1}, x \in S }

\* the raw timelines (AttribAccessList) client.timeline can answer with
RawTimelines ==
    { [type |-> "AttribAccessList", items |-> q] : q \in SeqsUpTo(Posts, MaxPosts) }

\* dict(item): a plain dict with the item's key/value pairs
ToDict(item) == [type |-> "dict", fields |-> item.fields]

\* a slip: the comprehension stops one item short
StandardizeDropsLast(raw_timeline) ==
    [type |-> "list",
     items |-> [k \in 1..(Len(raw_timeline.items) - 1) |-> ToDict(raw_timeline.items[k])]]

\* _standardize_api_objects: [dict(item) for item in raw_timeline]
standardize_api_objects(raw_timeline) ==
    [type |-> "list",
     items |-> [k \in 1..Len(raw_timeline.items) |-> ToDict(raw_timeline.items[k])]]

\* a provider answer: a value, or an exception class raised
Ok(v) == [ok |-> TRUE, value |-> v, exc |-> "none"]

Err(e) == [ok |-> FALSE, value |-> NoValue, exc |-> e]

\* answers of client.timeline(timeline=..., limit=limit): at most `limit`
\* posts ("Number of posts to obtain from the timeline"), or an exception
TimelineAnswers(limit) ==
    { Ok(v) : v \in { r \in RawTimelines : Len(r.items) <= limit } }
        \cup { Err(e) : e \in TimelineErrors }

\* answers of Mastodon(...): the constructed client, or an exception
ConstructorAnswers == { Ok(NoValue) } \cup { Err(e) : e \in ConstructorErrors }

\* one provider API call as the trace keeps it: method, arguments,
\* the client it was made on, and the provider's answer
Call(method, client, args, answer) ==
    [method |-> method, client |-> client, args |-> args, answer |-> answer]

\* outcome of an adapter call
NoResult == [kind |-> "none", value |-> NoValue, exc |-> "none"]

Return(v) == [kind |-> "return", value |-> v, exc |-> "none"]

Raise(e) == [kind |-> "raise", value |-> NoValue, exc |-> e]

\* ------------------------------------------------------------- state
VARIABLES
    app_client,    \* MastodonOAuthInterface.app_client (None or a client)
    user_client,   \* MastodonDataInterface.user_client (None or a client)
    credentials,   \* CLIENT_ID / CLIENT_SECRET / ACCESS_TOKEN of the OAuth adapter
    pc,            \* "idle": between calls; "loop": inside a retry loop
    op,            \* the operation called last (or in progress)
    args,          \* its arguments
    i,             \* the retry loop's index
    trace,         \* the provider calls made by this call, in order
    result,        \* how the call ended (NoResult while in progress)
    log,           \* levels of the log entries written by this call
    ever_started,  \* history: has start_user_api_client / start_app_api_client ever succeeded
    last_start     \* history: the arguments of the latest successful start of each adapter,
                   \* and whether it replaced a client built from other arguments

vars == <<app_client, user_client, credentials, pc, op, args, i, trace, result, log, ever_started, last_start>>

NoArgs == [none |-> TRUE]

\* no start has succeeded yet
NoStart == [domain |-> "", token |-> "", replaced |-> FALSE]

\* the two adapters after __init__, before any operation
Init ==
    /\ app_client = None
    /\ user_client = None
    /\ credentials = Credentials
    /\ pc = "idle"
    /\ op = "init"
    /\ args = NoArgs
    /\ i = 0
    /\ trace = <<>>
    /\ result = NoResult
    /\ log = <<>>
    /\ ever_started = [user |-> FALSE, app |-> FALSE]
    /\ last_start = [user |-> NoStart, app |-> NoStart]

\* ------------------------------------------------- MastodonDataInterface
\* Mastodon(access_token=..., api_base_url=...)
UserClient(user_domain, user_access_token) ==
    [cls |-> "Mastodon", api_base_url |-> user_domain, access_token |-> user_access_token]

\* a slip: the clauses in the other order, the MastodonAPIError clause first
StartUserExceptSwapped ==
    << [classes |-> {"ConnectionError", "MastodonAPIError"}, do |-> "raise", exc |-> "MastodonConnError"],
       [classes |-> {"MastodonUnauthorizedError"}, do |-> "raise", exc |-> "InvalidApiInputError"] >>

\* the except clauses of start_user_api_client, in source order
StartUserExcept ==
    << [classes |-> {"MastodonUnauthorizedError"}, do |-> "raise", exc |-> "InvalidApiInputError"],
       [classes |-> {"ConnectionError", "MastodonAPIError"}, do |-> "raise", exc |-> "MastodonConnError"] >>

\* a slip: the client stored before the probe has answered
UserClientStoredBeforeProbe(old, client, built_ok, probe_ok) ==
    IF built_ok THEN client ELSE old

\* a slip: a client already held is kept ("if self.user_client is None")
UserClientKeptWhenHeld(old, client, built_ok, probe_ok) ==
    IF built_ok /\ probe_ok /\ old = None THEN client ELSE old

\* self.user_client after the try block: line 48 assigns the new client, and
\* runs only when the constructor (line 45) and the probe (line 47) raised nothing
UserClientAfterStart(old, client, built_ok, probe_ok) ==
    IF built_ok /\ probe_ok THEN client ELSE old

\* start_user_api_client(user_domain, user_access_token): construct the
\* client, probe one home-timeline post, store the client on success.
start_user_api_client(user_domain, user_access_token) ==
    /\ pc = "idle"
    /\ op' = "start_user_api_client"
    /\ args' = [user_domain |-> user_domain, user_access_token |-> user_access_token]
    /\ i' = 0
    /\ pc' = "idle"
    /\ \E built \in ConstructorAnswers :
       \E probe \in (IF built.ok THEN TimelineAnswers(1) ELSE {built}) :
        LET client == UserClient(user_domain, user_access_token)
            made == IF built.ok
                    THEN << Call("timeline", client, [timeline |-> "home", limit |-> 1], probe) >>
                    ELSE << >>
            failed == IF built.ok THEN probe ELSE built
        IN /\ trace' = made
           /\ user_client' = UserClientAfterStart(user_client, client, built.ok, probe.ok)
           /\ ever_started' = [ever_started EXCEPT !.user = @ \/ failed.ok]
           /\ last_start' = IF failed.ok
                            THEN [last_start EXCEPT
                                    !.user = [domain |-> user_domain, token |-> user_access_token,
                                              replaced |-> user_client \notin {None, client}]]
                            ELSE last_start
           /\ IF failed.ok
              THEN /\ log' = <<"info", "info">>
                   /\ result' = Return(PyNone)
              ELSE LET d == Dispatch(StartUserExcept, failed.exc)
                   IN /\ log' = IF d.do = "propagate" THEN <<"info">> ELSE <<"info", "error">>
                      /\ result' = Raise(d.exc)
    /\ UNCHANGED <<app_client, credentials>>

\* the except clause of get_timeline_data's loop body
GetTimelineExcept ==
    << [classes |-> {"ConnectionError", "MastodonAPIError"}, do |-> "retry", exc |-> "none"] >>

\* a slip: the assert left out
AssertUserClientOmitted == TRUE

\* assert self.user_client is not None
AssertUserClient == user_client # None

\* get_timeline_data, entry: the assert, then the for loop is entered
get_timeline_data(timeline_name, num_posts_to_get, tries) ==
    /\ pc = "idle"
    /\ op' = "get_timeline_data"
    /\ args' = [timeline_name |-> timeline_name, num_posts_to_get |-> num_posts_to_get,
                num_tries |-> tries]
    /\ i' = 0
    /\ trace' = <<>>
    /\ log' = <<>>
    /\ IF AssertUserClient
       THEN /\ pc' = "loop"
            /\ result' = NoResult
       ELSE /\ pc' = "idle"
            /\ result' = Raise("AssertionError")
    /\ UNCHANGED <<app_client, user_client, credentials, ever_started, last_start>>

\* get_timeline_data, one iteration of "for i in range(num_tries)"
get_timeline_data_try ==
    /\ pc = "loop"
    /\ op = "get_timeline_data"
    /\ i < args.num_tries
    /\ \E answer \in TimelineAnswers(args.num_posts_to_get) :
        LET c == Call("timeline", user_client,
                      [timeline |-> args.timeline_name, limit |-> args.num_posts_to_get], answer)
        IN /\ trace' = Append(trace, c)
           /\ IF answer.ok
              THEN /\ result' = Return(standardize_api_objects(answer.value))
                   /\ log' = log \o <<"info", "info">>
                   /\ pc' = "idle"
                   /\ i' = i
              ELSE LET d == Dispatch(GetTimelineExcept, answer.exc)
                   IN IF d.do = "retry"
                      THEN /\ result' = NoResult
                           /\ log' = log \o <<"info", "error">>
                           /\ pc' = "loop"
                           /\ i' = i + 1
                      ELSE /\ result' = Raise(d.exc)
                           /\ log' = log \o (IF d.do = "propagate" THEN <<"info">> ELSE <<"info", "error">>)
                           /\ pc' = "idle"
                           /\ i' = i
    /\ UNCHANGED <<app_client, user_client, credentials, op, args, ever_started, last_start>>

\* a slip: giving up returns an empty list instead of raising
get_timeline_data_exhausted_returns ==
    /\ pc = "loop"
    /\ op = "get_timeline_data"
    /\ i >= args.num_tries
    /\ log' = Append(log, "error")
    /\ result' = Return([type |-> "list", items |-> <<>>])
    /\ pc' = "idle"
    /\ UNCHANGED <<app_client, user_client, credentials, op, args, i, trace, ever_started, last_start>>

\* get_timeline_data, after the loop ran out: log and raise MastodonConnError
get_timeline_data_exhausted ==
    /\ pc = "loop"
    /\ op = "get_timeline_data"
    /\ i >= args.num_tries
    /\ log' = Append(log, "error")
    /\ result' = Raise("MastodonConnError")
    /\ pc' = "idle"
    /\ UNCHANGED <<app_client, user_client, credentials, op, args, i, trace, ever_started, last_start>>


\* ------------------------------------------------ MastodonOAuthInterface
\* Strings the cleaning step looks into are sequences of one-character
\* strings.  urlparse is modelled on the characters it tells apart: the
\* scheme characters (letters, digits, "."), ":", "/", "?" and "#".
Letters == {"h", "t", "p", "s", "a", "b", "H"}

SchemeChars == Letters \cup {".", "8"}

Lower(ch) == IF ch = "H" THEN "h" ELSE ch

\* position of the first element of q at or after `from` that is in S, 0 if none
RECURSIVE Find(_, _, _)
Find(q, S, from) ==
    IF from > Len(q) THEN 0
    ELSE IF q[from] \in S THEN from
    ELSE Find(q, S, from + 1)

\* q[from..], empty when from is beyond the end
Tail_(q, from) == SubSeq(q, from, Len(q))

\* urllib.parse.urlparse(url): scheme, netloc and path of the result
urlparse(url) ==
    LET colon == Find(url, {":"}, 1)
        hasScheme == /\ colon > 1
                     /\ url[1] \in Letters
                     /\ \A k \in 1..(colon - 1) : url[k] \in SchemeChars
        scheme == IF hasScheme THEN [k \in 1..(colon - 1) |-> Lower(url[k])] ELSE <<>>
        rest1 == IF hasScheme THEN Tail_(url, colon + 1) ELSE url
        hasNetloc == Len(rest1) >= 2 /\ rest1[1] = "/" /\ rest1[2] = "/"
        delim == IF hasNetloc THEN Find(rest1, {"/", "?", "#"}, 3) ELSE 0
        netloc == IF ~hasNetloc THEN <<>>
                  ELSE IF delim = 0 THEN Tail_(rest1, 3)
                  ELSE SubSeq(rest1, 3, delim - 1)
        rest2 == IF ~hasNetloc THEN rest1
                 ELSE IF delim = 0 THEN <<>>
                 ELSE Tail_(rest1, delim)
        hash == Find(rest2, {"#"}, 1)
        rest3 == IF hash = 0 THEN rest2 ELSE SubSeq(rest2, 1, hash - 1)
        quest == Find(rest3, {"?"}, 1)
        path == IF quest = 0 THEN rest3 ELSE SubSeq(rest3, 1, quest - 1)
    IN [scheme |-> scheme, netloc |-> netloc, path |-> path]

\* a slip: the two branches the other way round
CleanBranchesSwapped(user_provided_domain) ==
    LET parsed_input == urlparse(user_provided_domain)
    IN IF parsed_input.scheme # <<>> THEN parsed_input.path ELSE parsed_input.netloc

\* _clean_user_provided_domain: netloc when a scheme was parsed, else path
clean_user_provided_domain(user_provided_domain) ==
    LET parsed_input == urlparse(user_provided_domain)
    IN IF parsed_input.scheme # <<>> THEN parsed_input.netloc ELSE parsed_input.path

\* "https://{d}/api/v2/instance".format(d=wanted_domain)
endpoint_to_test(wanted_domain) ==
    <<"h", "t", "t", "p", "s", ":", "/", "/">> \o wanted_domain
        \o <<"/", "a", "p", "i", "/", "v", "2", "/", "i", "n", "s", "t", "a", "n", "c", "e">>

\* the domain strings a user types into verify_user_provided_domain
UserInputs ==
    { <<"a", ".", "b">>,
      <<"a", ".", "b", "/", "p">>,
      <<"h", "t", "t", "p", "s", ":", "/", "/", "a", ".", "b">>,
      <<"H", "t", "t", "p", "s", ":", "/", "/", "a", ".", "b", "/", "p">> }

\* response bodies of the instance-info endpoint
JsonWithDomain(d) == [type |-> "json", keys |-> {"domain", "title"}, domain |-> d]

JsonNoDomain == [type |-> "json", keys |-> {"error"}, domain |-> ""]

NotJson == [type |-> "html", keys |-> {}, domain |-> ""]

Bodies == { JsonWithDomain(d) : d \in Domains } \cup {JsonNoDomain, NotJson}

\* status codes the probe may answer with
StatusCodes == {HTTP_OK, 404}

Response(status, body) == [type |-> "Response", status_code |-> status, content |-> body]

\* answers of requests.get(endpoint_to_test)
HttpAnswers ==
    { Ok(Response(st, b)) : st \in StatusCodes, b \in Bodies }
        \cup { Err("requests.ConnectionError") }

\* the (bool, str) pair verify_user_provided_domain returns
Pair(valid, d) == [type |-> "tuple", valid |-> valid, domain |-> d]

\* a slip: the field read with a default, .get("domain", ""), and the body
\* never checked
DomainFieldDefaulted(content) ==
    IF content.type = "json" /\ "domain" \in content.keys
    THEN Return(Pair(TRUE, content.domain))
    ELSE Return(Pair(TRUE, ""))

\* json.loads(response.content)["domain"]: the field, or the exception raised
DomainField(content) ==
    IF content.type # "json" THEN Raise("JSONDecodeError")
    ELSE IF "domain" \notin content.keys THEN Raise("KeyError")
    ELSE Return(Pair(TRUE, content.domain))

\* a slip: the except clause names the builtin ConnectionError, which
\* requests' ConnectionError is not
VerifyExceptBuiltin ==
    << [classes |-> {"ConnectionError"}, do |-> "absorb", exc |-> "none"] >>

\* the except clause of verify_user_provided_domain
VerifyExcept ==
    << [classes |-> {"requests.ConnectionError"}, do |-> "absorb", exc |-> "none"] >>

\* verify_user_provided_domain(user_domain): clean, probe, interpret
verify_user_provided_domain(user_domain) ==
    /\ pc = "idle"
    /\ op' = "verify_user_provided_domain"
    /\ args' = [user_domain |-> user_domain]
    /\ i' = 0
    /\ pc' = "idle"
    /\ \E answer \in HttpAnswers :
        LET wanted_domain == clean_user_provided_domain(user_domain)
            url == endpoint_to_test(wanted_domain)
        IN /\ trace' = << Call("requests.get", None, [url |-> url], answer) >>
           /\ IF answer.ok
              THEN /\ log' = <<>>
                   /\ result' = IF answer.value.status_code = HTTP_OK
                                THEN DomainField(answer.value.content)
                                ELSE Return(Pair(FALSE, ""))
              ELSE LET d == Dispatch(VerifyExcept, answer.exc)
                   IN IF d.do = "absorb"
                      THEN /\ log' = <<"error">>
                           /\ result' = Return(Pair(FALSE, ""))
                      ELSE /\ log' = <<>>
                           /\ result' = Raise(d.exc)
    /\ UNCHANGED <<app_client, user_client, credentials, ever_started, last_start>>

\* Mastodon(client_id=..., client_secret=..., access_token=..., api_base_url=...)
AppClient(user_domain) ==
    [cls |-> "Mastodon", api_base_url |-> user_domain, client_id |-> credentials.CLIENT_ID,
     client_secret |-> credentials.CLIENT_SECRET, access_token |-> credentials.ACCESS_TOKEN]

\* the except clause of start_app_api_client
StartAppExcept ==
    << [classes |-> {"ConnectionError", "MastodonAPIError"}, do |-> "raise", exc |-> "MastodonConnError"] >>

\* start_app_api_client(user_domain): construct and store the app client
start_app_api_client(user_domain) ==
    /\ pc = "idle"
    /\ op' = "start_app_api_client"
    /\ args' = [user_domain |-> user_domain]
    /\ i' = 0
    /\ pc' = "idle"
    /\ trace' = <<>>
    /\ \E built \in ConstructorAnswers :
        IF built.ok
        THEN /\ app_client' = AppClient(user_domain)
             /\ ever_started' = [ever_started EXCEPT !.app = TRUE]
             /\ last_start' = [last_start EXCEPT
                                 !.app = [domain |-> user_domain, token |-> "",
                                          replaced |-> app_client \notin {None, AppClient(user_domain)}]]
             /\ log' = <<>>
             /\ result' = Return(PyNone)
        ELSE LET d == Dispatch(StartAppExcept, built.exc)
             IN /\ app_client' = app_client
                /\ ever_started' = ever_started
                /\ last_start' = last_start
                /\ log' = IF d.do = "propagate" THEN <<>> ELSE <<"error">>
                /\ result' = Raise(d.exc)
    /\ UNCHANGED <<user_client, credentials>>

\* the url auth_request_url builds for the app client
AuthUrl(client, redirect_uris, scopes) ==
    [type |-> "url", domain |-> client.api_base_url, client_id |-> client.client_id,
     redirect_uri |-> redirect_uris, scopes |-> scopes]

\* answers of app_client.auth_request_url(...)
AuthUrlAnswers(client) ==
    { Ok(AuthUrl(client, REDIRECT_URI, REQUIRED_SCOPES)) } \cup { Err(e) : e \in OAuthErrors }

\* answers of app_client.log_in(...): the user's access token, or an exception
LogInAnswers ==
    { Ok([type |-> "str", s |-> t]) : t \in Tokens } \cup { Err(e) : e \in OAuthErrors }

\* the except clause of generate_redirect_url's loop body
GenerateRedirectUrlExcept ==
    << [classes |-> {"MastodonAPIError"}, do |-> "retry", exc |-> "none"] >>

\* a slip: the clauses in the other order, so the illegal-argument clause
\* comes after the retrying one, and a bare "except Exception" retrying
GenerateUserAccessTokenExceptRetryAll ==
    << [classes |-> {"ConnectionError", "MastodonAPIError", "MastodonIllegalArgumentError"},
        do |-> "retry", exc |-> "none"],
       [classes |-> {"MastodonIllegalArgumentError"}, do |-> "raise", exc |-> "InvalidApiInputError"] >>

\* the except clauses of generate_user_access_token's loop body, in source order
GenerateUserAccessTokenExcept ==
    << [classes |-> {"MastodonIllegalArgumentError"}, do |-> "raise", exc |-> "InvalidApiInputError"],
       [classes |-> {"ConnectionError", "MastodonAPIError"}, do |-> "retry", exc |-> "none"] >>

\* assert self.app_client is not None
AssertAppClient == app_client # None

\* one iteration of an OAuth retry loop whose provider call c answered
\* `answer`, under the loop body's except clauses
OAuthTry(c, answer, clauses) ==
    /\ trace' = Append(trace, c)
    /\ IF answer.ok
       THEN /\ result' = Return(answer.value)
            /\ log' = log
            /\ pc' = "idle"
            /\ i' = i
       ELSE LET d == Dispatch(clauses, answer.exc)
            IN IF d.do = "retry"
               THEN /\ result' = NoResult
                    /\ log' = Append(log, "error")
                    /\ pc' = "loop"
                    /\ i' = i + 1
               ELSE /\ result' = Raise(d.exc)
                    /\ log' = IF d.do = "propagate" THEN log ELSE Append(log, "error")
                    /\ pc' = "idle"
                    /\ i' = i
    /\ UNCHANGED <<app_client, user_client, credentials, op, args, ever_started, last_start>>

\* generate_redirect_url(num_tries), entry: the assert, then the for loop
generate_redirect_url(tries) ==
    /\ pc = "idle"
    /\ op' = "generate_redirect_url"
    /\ args' = [num_tries |-> tries]
    /\ i' = 0
    /\ trace' = <<>>
    /\ log' = <<>>
    /\ IF AssertAppClient
       THEN /\ pc' = "loop"
            /\ result' = NoResult
       ELSE /\ pc' = "idle"
            /\ result' = Raise("AssertionError")
    /\ UNCHANGED <<app_client, user_client, credentials, ever_started, last_start>>

\* generate_redirect_url, one iteration of the loop
generate_redirect_url_try ==
    /\ pc = "loop"
    /\ op = "generate_redirect_url"
    /\ i < args.num_tries
    /\ \E answer \in AuthUrlAnswers(app_client) :
        OAuthTry(Call("auth_request_url", app_client,
                      [redirect_uris |-> REDIRECT_URI, scopes |-> REQUIRED_SCOPES], answer),
                 answer, GenerateRedirectUrlExcept)

\* a slip: giving up raises without the final log entry
generate_redirect_url_exhausted_silent ==
    /\ pc = "loop"
    /\ op = "generate_redirect_url"
    /\ i >= args.num_tries
    /\ log' = log
    /\ result' = Raise("MastodonConnError")
    /\ pc' = "idle"
    /\ UNCHANGED <<app_client, user_client, credentials, op, args, i, trace, ever_started, last_start>>

\* generate_redirect_url, after the loop ran out: log and raise MastodonConnError
generate_redirect_url_exhausted ==
    /\ pc = "loop"
    /\ op = "generate_redirect_url"
    /\ i >= args.num_tries
    /\ log' = Append(log, "error")
    /\ result' = Raise("MastodonConnError")
    /\ pc' = "idle"
    /\ UNCHANGED <<app_client, user_client, credentials, op, args, i, trace, ever_started, last_start>>

\* generate_user_access_token(user_auth_code, num_tries), entry: the assert,
\* then the for loop
generate_user_access_token(user_auth_code, tries) ==
    /\ pc = "idle"
    /\ op' = "generate_user_access_token"
    /\ args' = [user_auth_code |-> user_auth_code, num_tries |-> tries]
    /\ i' = 0
    /\ trace' = <<>>
    /\ log' = <<>>
    /\ IF AssertAppClient
       THEN /\ pc' = "loop"
            /\ result' = NoResult
       ELSE /\ pc' = "idle"
            /\ result' = Raise("AssertionError")
    /\ UNCHANGED <<app_client, user_client, credentials, ever_started, last_start>>

\* a slip: the loop runs for i in range(num_tries + 1)
generate_user_access_token_try_once_more ==
    /\ pc = "loop"
    /\ op = "generate_user_access_token"
    /\ i <= args.num_tries
    /\ \E answer \in LogInAnswers :
        OAuthTry(Call("log_in", app_client,
                      [code |-> args.user_auth_code, redirect_uri |-> REDIRECT_URI,
                       scopes |-> REQUIRED_SCOPES], answer),
                 answer, GenerateUserAccessTokenExcept)

\* generate_user_access_token, one iteration of the loop
generate_user_access_token_try ==
    /\ pc = "loop"
    /\ op = "generate_user_access_token"
    /\ i < args.num_tries
    /\ \E answer \in LogInAnswers :
        OAuthTry(Call("log_in", app_client,
                      [code |-> args.user_auth_code, redirect_uri |-> REDIRECT_URI,
                       scopes |-> REQUIRED_SCOPES], answer),
                 answer, GenerateUserAccessTokenExcept)

\* a slip: giving up throws the app client away
generate_user_access_token_exhausted_drops_client ==
    /\ pc = "loop"
    /\ op = "generate_user_access_token"
    /\ i >= args.num_tries
    /\ log' = Append(log, "error")
    /\ result' = Raise("MastodonConnError")
    /\ pc' = "idle"
    /\ app_client' = None
    /\ UNCHANGED <<user_client, credentials, op, args, i, trace, ever_started, last_start>>

\* generate_user_access_token, after the loop ran out: log and raise MastodonConnError
generate_user_access_token_exhausted ==
    /\ pc = "loop"
    /\ op = "generate_user_access_token"
    /\ i >= args.num_tries
    /\ log' = Append(log, "error")
    /\ result' = Raise("MastodonConnError")
    /\ pc' = "idle"
    /\ UNCHANGED <<app_client, user_client, credentials, op, args, i, trace, ever_started, last_start>>

\* ---------------------------------------------------------- the system
\* num_posts_to_get values a caller passes
PostCounts == {1, 20}

Next ==
    \/ \E d \in Domains, t \in Tokens : start_user_api_client(d, t)
    \/ \E n \in TimelineNames, c \in PostCounts, r \in TriesRange : get_timeline_data(n, c, r)
    \/ get_timeline_data_try
    \/ get_timeline_data_exhausted
    \/ \E u \in UserInputs : verify_user_provided_domain(u)
    \/ \E d \in Domains : start_app_api_client(d)
    \/ \E r \in TriesRange : generate_redirect_url(r)
    \/ generate_redirect_url_try
    \/ generate_redirect_url_exhausted
    \/ \E c \in AuthCodes, r \in TriesRange : generate_user_access_token(c, r)
    \/ generate_user_access_token_try
    \/ generate_user_access_token_exhausted

Spec == Init /\ [][Next]_vars

\* the steps of a call that is inside its for loop
LoopStep ==
    \/ get_timeline_data_try
    \/ get_timeline_data_exhausted
    \/ generate_redirect_url_try
    \/ generate_redirect_url_exhausted
    \/ generate_user_access_token_try
    \/ generate_user_access_token_exhausted

\* the loops are synchronous, without delay or cancellation, and the provider
\* call of an iteration returns or raises: a call inside its loop goes on
SpecLive == Spec /\ WF_vars(LoopStep)


\* ------------------------------------------- the cleaning step on its own
\* The strings a user may type, built from at most MaxPieces pieces: a
\* scheme with "://", a host, a port, and the separators urlparse looks for.
CleanPieces ==
    { <<"h", "t", "t", "p", "s", ":", "/", "/">>, <<"a", ".", "b">>, <<":", "8">>,
      <<"/">>, <<"?">>, <<"#">>, <<"@">>, <<"H">>, <<":">> }

RECURSIVE Concats(_)
Concats(n) ==
    IF n <= 0 THEN {<<>>}
    ELSE LET shorter == Concats(n - 1)
         IN shorter \cup { q \o x : q \in shorter, x \in CleanPieces }

CleanInputs == Concats(MaxPieces)

\* the OAuth adapter after __init__, about to be handed one user string
InitClean ==
    /\ app_client = None
    /\ user_client = None
    /\ credentials = Credentials
    /\ pc = "idle"
    /\ op = "init"
    /\ args \in { [user_provided_domain |-> u] : u \in CleanInputs }
    /\ i = 0
    /\ trace = <<>>
    /\ result = NoResult
    /\ log = <<>>
    /\ ever_started = [user |-> FALSE, app |-> FALSE]
    /\ last_start = [user |-> NoStart, app |-> NoStart]

\* a call of _clean_user_provided_domain on the string
CleanApply ==
    /\ pc = "idle"
    /\ op = "init"
    /\ op' = "clean_user_provided_domain"
    /\ result' = Return([type |-> "str", s |-> clean_user_provided_domain(args.user_provided_domain)])
    /\ UNCHANGED <<app_client, user_client, credentials, pc, args, i, trace, log,
                   ever_started, last_start>>

\* a call of verify_user_provided_domain on the string
CleanVerify ==
    /\ op = "init"
    /\ verify_user_provided_domain(args.user_provided_domain)

NextClean == CleanApply \/ CleanVerify

SpecClean == InitClean /\ [][NextClean]_vars

\* ------------------------------------------------------------ properties
\* the three operations with a retry loop
Retryable == {"get_timeline_data", "generate_redirect_url", "generate_user_access_token"}

\* the two translated errors of custom_exceptions
TypedErrors == {"InvalidApiInputError", "MastodonConnError"}

\* transient provider failures: a connection failure or a provider API error
TransientErrors == {"ConnectionError", "MastodonAPIError"}

\* the last call has ended
Finished == pc = "idle" /\ result.kind # "none"

\* the client the last operation needs is there
ClientMet ==
    \/ op \in {"get_timeline_data"} /\ user_client # None
    \/ op \in {"generate_redirect_url", "generate_user_access_token"} /\ app_client # None

\* positions of the failed provider calls of a trace
Failures(tr) == { k \in 1..Len(tr) : ~tr[k].answer.ok }

OnlyTransient(tr) == \A k \in Failures(tr) : tr[k].answer.exc \in TransientErrors

\* what the operation returns for a successful provider call c
ValueOf(c) ==
    IF c.method = "timeline" THEN standardize_api_objects(c.answer.value) ELSE c.answer.value

\* C1: a retryable operation on a started client, with num_tries >= 1, whose
\* provider failed only transiently (connection failure or API error) and
\* fewer than num_tries times, ends by returning the result of the
\* successful attempt after exactly k+1 provider calls; no provider call
\* follows a success.
C1_TransientThenSuccess ==
    /\ (op \in Retryable /\ ClientMet) =>
          \A k \in 1..Len(trace) : trace[k].answer.ok => (k = Len(trace) /\ pc = "idle")
    /\ ( /\ Finished
         /\ op \in Retryable
         /\ ClientMet
         /\ args.num_tries >= 1
         /\ OnlyTransient(trace)
         /\ Cardinality(Failures(trace)) < args.num_tries )
       => /\ result.kind = "return"
          /\ Len(trace) = Cardinality(Failures(trace)) + 1
          /\ trace[Len(trace)].answer.ok
          /\ result.value = ValueOf(trace[Len(trace)])

\* C2: a retryable operation on a started client whose every provider call
\* failed transiently ends by raising MastodonConnError after exactly
\* num_tries provider calls, and returns no value.
C2_ExhaustedRaisesConnError ==
    ( /\ Finished
      /\ op \in Retryable
      /\ ClientMet
      /\ args.num_tries >= 0
      /\ Failures(trace) = 1..Len(trace)
      /\ OnlyTransient(trace) )
    => /\ result = Raise("MastodonConnError")
       /\ Len(trace) = args.num_tries

\* C3: in generate_user_access_token an illegal-argument answer of the
\* provider ends the call at once with InvalidApiInputError: it is the last
\* provider call whatever tries remain, and when it answers the first
\* attempt the call has made exactly one provider call.
C3_IllegalArgumentAborts ==
    op = "generate_user_access_token" =>
        \A k \in 1..Len(trace) :
            trace[k].answer.exc = "MastodonIllegalArgumentError" =>
                /\ k = Len(trace)
                /\ pc = "idle"
                /\ result = Raise("InvalidApiInputError")

\* C3 witness: the first attempt of a call with tries to spare was rejected
C3_Witness ==
    /\ op = "generate_user_access_token"
    /\ Len(trace) = 1
    /\ trace[1].answer.exc = "MastodonIllegalArgumentError"
    /\ args.num_tries = DefaultTries
    /\ result = Raise("InvalidApiInputError")

\* C4 (original): whenever start_user_api_client fails, it raises a typed
\* error and the adapter holds no session client afterwards (the assert of a
\* following get_timeline_data fails), also after an earlier successful start.
C4_NoClientAfterFailedStart ==
    (op = "start_user_api_client" /\ result.kind = "raise") =>
        /\ result.exc \in TypedErrors
        /\ ~AssertUserClient

\* C4 (amended): a start_user_api_client call that fails raises a typed
\* error and leaves user_client as it was before the call; a
\* get_timeline_data call made while no client is held fails its assert.
C4_FailedStartKeepsClient ==
    [][ /\ (op' = "start_user_api_client" /\ result'.kind = "raise") =>
            (result'.exc \in TypedErrors /\ user_client' = user_client)
        /\ (pc = "idle" /\ op' = "get_timeline_data" /\ user_client = None) =>
            (result' = Raise("AssertionError") /\ pc' = "idle") ]_vars

\* C4 witness: a start failed on an adapter that already held a client
C4_Witness ==
    /\ op = "start_user_api_client"
    /\ result.kind = "raise"
    /\ Len(trace) = 1
    /\ user_client # None
    /\ user_client # trace[1].client

\* C5: get_timeline_data before any successful start_user_api_client, and
\* generate_redirect_url / generate_user_access_token before any successful
\* start_app_api_client, end with AssertionError and no provider call, for
\* every num_tries.
C5_PreconditionViolation ==
    /\ (op = "get_timeline_data" /\ ~ever_started.user) =>
          (pc = "idle" /\ result = Raise("AssertionError") /\ trace = <<>>)
    /\ (op \in {"generate_redirect_url", "generate_user_access_token"} /\ ~ever_started.app) =>
          (pc = "idle" /\ result = Raise("AssertionError") /\ trace = <<>>)

\* C5 witness: a call with num_tries 0, which a started client would have
\* answered with MastodonConnError, before the app client was started
C5_Witness ==
    /\ op = "generate_redirect_url"
    /\ ~ever_started.app
    /\ args.num_tries = 0
    /\ result = Raise("AssertionError")


\* the probe verify_user_provided_domain made
Probe == trace[1]

\* the probe answered HTTP 200 with a JSON body that has a domain field
LegitimateInstance(c) ==
    /\ c.answer.ok
    /\ c.answer.value.status_code = HTTP_OK
    /\ c.answer.value.content.type = "json"
    /\ "domain" \in c.answer.value.content.keys

\* C6: verify_user_provided_domain probes https://<cleaned domain>/api/v2/instance
\* and returns (True, d) only when that probe answered HTTP 200 with a JSON
\* body holding a domain field, d being that field; for every non-200
\* response it returns (False, "").
C6_VerifyTrueOnlyOnInstance ==
    op = "verify_user_provided_domain" =>
        /\ Probe.method = "requests.get"
        /\ Probe.args.url = endpoint_to_test(clean_user_provided_domain(args.user_domain))
        /\ (result.kind = "return" /\ result.value.valid) =>
              (LegitimateInstance(Probe) /\ result.value.domain = Probe.answer.value.content.domain)
        /\ (Probe.answer.ok /\ Probe.answer.value.status_code # HTTP_OK) =>
              result = Return(Pair(FALSE, ""))

\* C6 witness: a typed URL with scheme and path was verified, and the pair
\* carries the server's domain field
C6_Witness ==
    /\ op = "verify_user_provided_domain"
    /\ args.user_domain = <<"H", "t", "t", "p", "s", ":", "/", "/", "a", ".", "b", "/", "p">>
    /\ result = Return(Pair(TRUE, "tomorrow.io"))

\* C7: when the probe fails at the network level, verify_user_provided_domain
\* returns (False, ""), writes an error log entry and raises nothing; it is
\* callable whether or not the app client was started.
C7_ConnectionFailureAbsorbed ==
    (op = "verify_user_provided_domain" /\ ~Probe.answer.ok) =>
        /\ result = Return(Pair(FALSE, ""))
        /\ log = <<"error">>

\* C7 witness: the probe failed on an adapter whose app client was never started
C7_Witness ==
    /\ op = "verify_user_provided_domain"
    /\ Probe.answer.exc = "requests.ConnectionError"
    /\ app_client = None
    /\ ~ever_started.app
    /\ result.kind = "return"

\* C8: verify_user_provided_domain is total over probe outcomes: it returns
\* a (bool, str) pair for every probe outcome, True with the domain when the
\* server is a legitimate instance and False otherwise, and never raises.
C8_VerifyTotal ==
    op = "verify_user_provided_domain" =>
        /\ result.kind = "return"
        /\ result.value.type = "tuple"
        /\ result.value.valid = LegitimateInstance(Probe)

\* C9: generate_redirect_url, generate_user_access_token, get_timeline_data
\* and start_user_api_client, called with their client there, surface every
\* provider or transport failure only as InvalidApiInputError or
\* MastodonConnError, and a connection failure on an attempt that is not the
\* last one is followed by another attempt.
C9_OnlyTranslatedErrors ==
    /\ ( /\ Finished
         /\ op \in Retryable \cup {"start_user_api_client"}
         /\ op \in Retryable => ClientMet
         /\ result.kind = "raise" )
       => result.exc \in TypedErrors
    /\ (Finished /\ op \in Retryable /\ ClientMet) =>
          \A k \in 1..Len(trace) :
              (trace[k].answer.exc = "ConnectionError" /\ k < args.num_tries) => k < Len(trace)

\* C10: a provider answer that rejects the caller's credential (unauthorized
\* token in get_timeline_data or start_user_api_client, illegal authorization
\* code in generate_user_access_token) is never retried: it is the call's
\* last provider call and the call raises InvalidApiInputError.
C10_RejectionNeverRetried ==
    \A k \in 1..Len(trace) :
        ( \/ /\ op \in {"get_timeline_data", "start_user_api_client"}
             /\ trace[k].answer.exc = "MastodonUnauthorizedError"
          \/ /\ op = "generate_user_access_token"
             /\ trace[k].answer.exc = "MastodonIllegalArgumentError" )
        => /\ k = Len(trace)
           /\ pc = "idle"
           /\ result = Raise("InvalidApiInputError")

\* the provider call that ended the last call, when there is one
LastCall == trace[Len(trace)]

\* out is a list of Len(raw) dicts, the k-th holding exactly the key/value
\* pairs of the k-th raw object
NormalizedFrom(out, raw) ==
    /\ out.type = "list"
    /\ Len(out.items) = Len(raw)
    /\ \A k \in 1..Len(raw) :
          /\ out.items[k].type = "dict"
          /\ DOMAIN out.items[k].fields = DOMAIN raw[k].fields
          /\ \A f \in DOMAIN raw[k].fields : out.items[k].fields[f] = raw[k].fields[f]

\* C11: when the fetch of get_timeline_data succeeds with a raw sequence of
\* N post objects, the call returns a list of exactly N dicts in the same
\* order, the k-th dict holding exactly the key/value pairs of the k-th raw
\* object; an empty raw sequence gives an empty list, returned as a success.
C11_NormalizedTimeline ==
    (op = "get_timeline_data" /\ Len(trace) > 0 /\ LastCall.answer.ok) =>
        (result.kind = "return" /\ NormalizedFrom(result.value, LastCall.answer.value.items))

\* C11 witness: two different posts came back normalized in the provider's order
C11_Witness ==
    /\ op = "get_timeline_data"
    /\ result.kind = "return"
    /\ Len(result.value.items) = 2
    /\ result.value.items[1].fields.content = "hello"
    /\ result.value.items[2].fields.content = "world"
    /\ LastCall.answer.value.items[1].fields.content = "hello"

\* C11, the empty case: a fetch of no posts is a success returning an empty list
C11_WitnessEmpty ==
    /\ op = "get_timeline_data"
    /\ result.kind = "return"
    /\ result.value.items = <<>>

\* C12: get_timeline_data is all-or-nothing: when it returns, the value is
\* the complete normalized answer of the one provider fetch that succeeded
\* (the last call of the trace, every earlier one having failed); while it
\* runs and when it raises, no entries are handed out.
C12_AllOrNothing ==
    op = "get_timeline_data" =>
        /\ result.kind = "return" =>
              /\ pc = "idle"
              /\ Len(trace) > 0
              /\ LastCall.answer.ok
              /\ NormalizedFrom(result.value, LastCall.answer.value.items)
              /\ \A k \in 1..(Len(trace) - 1) : ~trace[k].answer.ok
        /\ result.kind # "return" => result.value = NoValue

\* C12 witness: a call returned the posts of its third fetch after two failed ones
C12_Witness ==
    /\ op = "get_timeline_data"
    /\ result.kind = "return"
    /\ Len(trace) = 3
    /\ ~trace[1].answer.ok
    /\ Len(result.value.items) = 2

\* C12, the failing side: a call gave up after failed fetches and returned nothing
C12_WitnessRaise ==
    /\ op = "get_timeline_data"
    /\ result = Raise("MastodonConnError")
    /\ Len(trace) = 2

\* the client was built from the arguments of the start that `last` records
BuiltFrom(client, last, with_token) ==
    IF client = None THEN last = NoStart
    ELSE /\ last # NoStart
         /\ client.api_base_url = last.domain
         /\ with_token => client.access_token = last.token

\* C13: each adapter holds one client or none, the one built from the domain
\* (and token) of its most recent successful start, and every provider call
\* of generate_redirect_url, generate_user_access_token and get_timeline_data
\* is made on that client, never on one from an earlier start.
C13_LatestStartUsed ==
    /\ BuiltFrom(user_client, last_start.user, TRUE)
    /\ BuiltFrom(app_client, last_start.app, FALSE)
    /\ op = "get_timeline_data" =>
          \A k \in 1..Len(trace) : trace[k].client = user_client
    /\ op \in {"generate_redirect_url", "generate_user_access_token"} =>
          \A k \in 1..Len(trace) : trace[k].client = app_client

\* C13 witness: a start replaced a client built from other arguments, and a
\* later get_timeline_data fetched on the new client
C13_Witness ==
    /\ op = "get_timeline_data"
    /\ last_start.user.replaced
    /\ Len(trace) > 0
    /\ LastCall.client.api_base_url = last_start.user.domain
    /\ LastCall.client.access_token = last_start.user.token

\* C13, the OAuth side: the app client was replaced and then used
C13_WitnessApp ==
    /\ op = "generate_redirect_url"
    /\ last_start.app.replaced
    /\ result.kind = "return"
    /\ result.value.domain = last_start.app.domain

\* the string the cleaning step was called on
Typed == args.user_provided_domain

\* the length of the scheme when s starts with a scheme followed by "://"
\* (a letter, then scheme characters, up to the first colon), else 0
SchemeLen(s) ==
    LET colon == Find(s, {":"}, 1)
    IN IF /\ colon > 1
          /\ s[1] \in Letters
          /\ \A k \in 1..(colon - 1) : s[k] \in SchemeChars
          /\ Len(s) >= colon + 2
          /\ s[colon + 1] = "/"
          /\ s[colon + 2] = "/"
       THEN colon - 1
       ELSE 0

HasSchemePrefix(s) == SchemeLen(s) > 0

\* the authority of a URL with a scheme prefix: what stands between "://"
\* and the next "/", "?" or "#"
Authority(s) ==
    LET from == SchemeLen(s) + 4
        e == Find(s, {"/", "?", "#"}, from)
    IN IF e = 0 THEN SubSeq(s, from, Len(s)) ELSE SubSeq(s, from, e - 1)

\* position of the last element of q that is in S, 0 if none
RECURSIVE FindLast(_, _, _)
FindLast(q, S, n) ==
    IF n = 0 THEN 0
    ELSE IF q[n] \in S THEN n
    ELSE FindLast(q, S, n - 1)

\* the host of an authority: without the userinfo before the last "@" and
\* without the port after the host's ":"
HostOf(authority) ==
    LET at == FindLast(authority, {"@"}, Len(authority))
        hostport == SubSeq(authority, at + 1, Len(authority))
        colon == Find(hostport, {":"}, 1)
    IN IF colon = 0 THEN hostport ELSE SubSeq(hostport, 1, colon - 1)

\* C14 (original): for a typed string with a scheme prefix, the cleaning step
\* yields exactly the host of the URL, without scheme, path or anything else.
C14_CleanYieldsHost ==
    (op = "clean_user_provided_domain" /\ HasSchemePrefix(Typed)) =>
        result.value.s = HostOf(Authority(Typed))

\* C14 (amended): for a typed string with a scheme prefix, the cleaning step
\* yields exactly the URL's network location, the text between "://" and the
\* next "/", "?" or "#" (the host with any userinfo and port), without
\* scheme, path, query or fragment; it is the host when no userinfo or port
\* was typed.
C14_CleanYieldsNetloc ==
    (op = "clean_user_provided_domain" /\ HasSchemePrefix(Typed)) =>
        /\ result.value.s = Authority(Typed)
        /\ (\A k \in 1..Len(Authority(Typed)) : Authority(Typed)[k] \notin {"@", ":"}) =>
              result.value.s = HostOf(Authority(Typed))

\* C14 witness: https://a.b/a.b was cleaned to a.b
C14_Witness ==
    /\ op = "clean_user_provided_domain"
    /\ Typed = <<"h", "t", "t", "p", "s", ":", "/", "/", "a", ".", "b", "/">>
    /\ result.value.s = <<"a", ".", "b">>

\* s is nothing but a path: no scheme prefix, no query or fragment mark, no
\* leading "//"
PlainPath(s) ==
    /\ ~HasSchemePrefix(s)
    /\ \A k \in 1..Len(s) : s[k] \notin {"?", "#"}
    /\ ~(Len(s) >= 2 /\ s[1] = "/" /\ s[2] = "/")

\* C15: for a typed string without a scheme prefix (and that is all path),
\* the cleaning step yields the string as given, unchanged, and
\* verify_user_provided_domain probes https://<that string>/api/v2/instance.
C15_CleanKeepsSchemelessInput ==
    /\ (op = "clean_user_provided_domain" /\ PlainPath(Typed)) =>
          result.value.s = Typed
    /\ (op = "verify_user_provided_domain" /\ PlainPath(args.user_domain)) =>
          Probe.args.url =
              <<"h", "t", "t", "p", "s", ":", "/", "/">> \o args.user_domain
                  \o <<"/", "a", "p", "i", "/", "v", "2", "/", "i", "n", "s", "t", "a", "n", "c", "e">>

\* C15, the case the claim names: a host with a path, no scheme, comes back unchanged
C15_PlainPathKept ==
    /\ op = "clean_user_provided_domain"
    /\ Typed = <<"a", ".", "b", "/", "a", ".", "b">>
    /\ result.value.s = Typed

\* C15, the failing case: a host with a port, no scheme, is cleaned to the empty string
C15_HostPortLost ==
    /\ op = "clean_user_provided_domain"
    /\ Typed = <<"a", ".", "b", ":", "8">>
    /\ result.value.s = <<>>

\* C16: the stored session client is absent at first, and it changes only in
\* a start_user_api_client call that returns, to the client that call built
\* and whose sanity probe (one home-timeline item) answered without error;
\* a client whose probe failed is never stored.
C16_StoredClientWasProbed ==
    [][ user_client' # user_client =>
          /\ op' = "start_user_api_client"
          /\ result'.kind = "return"
          /\ Len(trace') = 1
          /\ trace'[1].method = "timeline"
          /\ trace'[1].args = [timeline |-> "home", limit |-> 1]
          /\ trace'[1].answer.ok
          /\ trace'[1].client = user_client' ]_vars

\* C16 witness: a start stored the client its probe had just succeeded on,
\* in place of a client of an earlier start
C16_Witness ==
    /\ op = "start_user_api_client"
    /\ result.kind = "return"
    /\ last_start.user.replaced
    /\ trace[1].answer.ok
    /\ trace[1].client = user_client

\* C16, the other side: a probe failed on a fresh adapter and nothing was stored
C16_WitnessProbeFailed ==
    /\ op = "start_user_api_client"
    /\ Len(trace) = 1
    /\ ~trace[1].answer.ok
    /\ user_client = None

\* how start_user_api_client ends for the answer of its probe
ProbeOutcome(answer) ==
    IF answer.ok THEN Return(PyNone)
    ELSE IF answer.exc = "MastodonUnauthorizedError" THEN Raise("InvalidApiInputError")
    ELSE Raise("MastodonConnError")

\* C17 (original): start_user_api_client makes exactly one probe call and
\* never retries; an unauthorized answer raises InvalidApiInputError, any
\* other failure of the probe raises MastodonConnError at once.
C17_ExactlyOneProbe ==
    op = "start_user_api_client" =>
        /\ pc = "idle"
        /\ Len(trace) = 1
        /\ result = ProbeOutcome(trace[1].answer)

\* C17 (amended): start_user_api_client never retries and makes at most one
\* probe call: none when constructing the client fails, which raises
\* MastodonConnError at once, and exactly one otherwise; an unauthorized
\* answer to the probe raises InvalidApiInputError (never MastodonConnError),
\* any other failure of the probe raises MastodonConnError at once.
C17_AtMostOneProbe ==
    op = "start_user_api_client" =>
        /\ pc = "idle"
        /\ Len(trace) <= 1
        /\ Len(trace) = 0 => result = Raise("MastodonConnError")
        /\ Len(trace) = 1 =>
              /\ trace[1].method = "timeline"
              /\ result = ProbeOutcome(trace[1].answer)

\* C17 witness: the probe was answered "unauthorized" and the call raised
\* InvalidApiInputError after that one call
C17_Witness ==
    /\ op = "start_user_api_client"
    /\ Len(trace) = 1
    /\ trace[1].answer.exc = "MastodonUnauthorizedError"
    /\ result = Raise("InvalidApiInputError")

\* C17, the case the amendment adds: the constructor failed, no probe was made
C17_WitnessNoProbe ==
    /\ op = "start_user_api_client"
    /\ trace = <<>>
    /\ result = Raise("MastodonConnError")

\* number of error entries in a log
RECURSIVE ErrorEntries(_)
ErrorEntries(l) ==
    IF l = <<>> THEN 0
    ELSE (IF Head(l) = "error" THEN 1 ELSE 0) + ErrorEntries(Tail(l))

C18_WitnessSuccess ==
    /\ op = "get_timeline_data"
    /\ result.kind = "return"
    /\ Len(trace) = 3
    /\ ErrorEntries(log) = 2

\* the operations that only use a client
ClientUsers ==
    {"verify_user_provided_domain", "generate_redirect_url", "generate_user_access_token",
     "get_timeline_data"}

\* C19: a step that ends an operation in an error leaves app_client and
\* user_client as they were; every step of verify_user_provided_domain,
\* generate_redirect_url, generate_user_access_token and get_timeline_data
\* leaves both clients and the credentials unchanged, whatever its outcome;
\* a client changes only in a start operation that returns, and only that
\* adapter's client; the credentials never change.
C19_FrameEffect ==
    [][ /\ result'.kind = "raise" =>
            (app_client' = app_client /\ user_client' = user_client)
        /\ op' \in ClientUsers =>
            /\ app_client' = app_client
            /\ user_client' = user_client
            /\ credentials' = credentials
        /\ app_client' # app_client =>
            (op' = "start_app_api_client" /\ result'.kind = "return" /\ user_client' = user_client)
        /\ user_client' # user_client =>
            (op' = "start_user_api_client" /\ result'.kind = "return" /\ app_client' = app_client)
        /\ credentials' = credentials ]_vars

\* C19 witness: generate_user_access_token ended in MastodonConnError after
\* provider calls and the app client of the last start is still held
C19_Witness ==
    /\ op = "generate_user_access_token"
    /\ result = Raise("MastodonConnError")
    /\ Len(trace) >= 1
    /\ app_client = AppClient(last_start.app.domain)
    /\ user_client # None

\* C19, the other side: a start_app_api_client call that returned put a
\* different client in place of the one held
C19_WitnessStartChanges ==
    /\ op = "start_app_api_client"
    /\ result.kind = "return"
    /\ last_start.app.replaced
    /\ app_client = AppClient(args.user_domain)

\* max(a, b)
Max(a, b) == IF a >= b THEN a ELSE b

\* the provider calls of the current retryable call stay within its num_tries
WithinTries ==
    op \in Retryable =>
        /\ Len(trace) <= Max(args.num_tries, 0)
        /\ \A k \in 1..Len(trace) : trace[k].method \in {"timeline", "auth_request_url", "log_in"}

\* with num_tries <= 0 a call whose client is there ends in MastodonConnError
\* without a provider call
NoTriesNoCall ==
    (op \in Retryable /\ ClientMet /\ args.num_tries <= 0 /\ pc = "idle") =>
        /\ trace = <<>>
        /\ result = Raise("MastodonConnError")

\* C20: every get_timeline_data, generate_redirect_url and
\* generate_user_access_token call that entered its loop ends, whatever the
\* provider answers, and makes at most max(num_tries, 0) provider calls; with
\* num_tries <= 0 it makes no provider call and raises MastodonConnError,
\* although the provider's answers include successes.
C20_Terminates ==
    /\ [](WithinTries /\ NoTriesNoCall)
    /\ (pc = "loop") ~> Finished

\* C20 witness: generate_user_access_token with num_tries = 0 on a started
\* app client raised MastodonConnError without a provider call
C20_Witness ==
    /\ op = "generate_user_access_token"
    /\ app_client # None
    /\ args.num_tries = 0
    /\ pc = "idle"
    /\ trace = <<>>
    /\ result = Raise("MastodonConnError")

\* C20, the other side: a call used all of its num_tries = 3 provider calls
C20_WitnessAllTries ==
    /\ op = "get_timeline_data"
    /\ args.num_tries = DefaultTries
    /\ Len(trace) = 3
    /\ Finished

====
